---- MODULE Spec2Model ----
(***************************************************************************)
(* Model of app/utils/gbff_processing.py: the occurrence finder            *)
(* (find_all_occurrences), the motif locator (process_gbff), the gene      *)
(* overlap resolver (get_overlapping_genes), the gene name extractor       *)
(* (extract_genes) and the annotation table normalizer (load_panaroo_csv). *)
(*                                                                         *)
(* A Python str is a sequence of one-character strings; a Python index p   *)
(* (0-based) is the element p + 1 of the sequence.                         *)
(***************************************************************************)
EXTENDS Integers, Sequences, FiniteSets, TLC

VARIABLES
    \* find_all_occurrences(sequence, subseq)
    sequence, subseq, start, yielded, fpc,
    \* process_gbff(gbff_path, target_unitigs, ...), called once per source
    sources, target_unitigs, call_i, pc, all_ref_records, rec_i, grp_i, utg_i,
    forward_seq_str, revcomp_seq_str, utg_revcomp, matches, prov,
    returned, warnings,
    \* get_overlapping_genes(features, start_pos, end_pos)
    features, start_pos, end_pos, feat_i, hits, opc,
    \* extract_genes(overlap_hits)
    overlap_hits, hit_i, genes, gpc,
    \* load_panaroo_csv(filepath)
    df, row_i, map_dict, ppc

findVars == <<sequence, subseq, start, yielded, fpc>>
locateVars == <<sources, target_unitigs, call_i, pc, all_ref_records, rec_i,
                grp_i, utg_i, forward_seq_str, revcomp_seq_str, utg_revcomp,
                matches, prov, returned, warnings>>
overlapVars == <<features, start_pos, end_pos, feat_i, hits, opc>>
extractVars == <<overlap_hits, hit_i, genes, gpc>>
panarooVars == <<df, row_i, map_dict, ppc>>
vars == <<findVars, locateVars, overlapVars, extractVars, panarooVars>>

notFind == <<locateVars, overlapVars, extractVars, panarooVars>>
notLocate == <<findVars, overlapVars, extractVars, panarooVars>>
notOverlap == <<findVars, locateVars, extractVars, panarooVars>>
notExtract == <<findVars, locateVars, overlapVars, panarooVars>>
notPanaroo == <<findVars, locateVars, overlapVars, extractVars>>

----------------------------------------------------------------------------
(* Bounds of the model *)

MaxRefLen == 3
MaxMotifLen == 2
MaxRecords == 2
MaxSources == 2
MaxFeatures == 3
MaxHits == 2
MaxRows == 2

----------------------------------------------------------------------------
(* Strings *)

Min(S) == CHOOSE x \in S : \A y \in S : x <= y

\* The strings over alphabet of length lo..hi
StringsOver(alphabet, lo, hi) == UNION {[1..n -> alphabet] : n \in lo..hi}

LowerLetters == <<"a", "b", "c", "d", "e", "f", "g", "h", "i", "j", "k", "l", "m",
                 "n", "o", "p", "q", "r", "s", "t", "u", "v", "w", "x", "y", "z">>
UpperLetters == <<"A", "B", "C", "D", "E", "F", "G", "H", "I", "J", "K", "L", "M",
                 "N", "O", "P", "Q", "R", "S", "T", "U", "V", "W", "X", "Y", "Z">>

CharUpper(c) ==
    IF \E i \in 1..Len(LowerLetters) : LowerLetters[i] = c
    THEN UpperLetters[CHOOSE i \in 1..Len(LowerLetters) : LowerLetters[i] = c]
    ELSE c

CharLower(c) ==
    IF \E i \in 1..Len(UpperLetters) : UpperLetters[i] = c
    THEN LowerLetters[CHOOSE i \in 1..Len(UpperLetters) : UpperLetters[i] = c]
    ELSE c

\* str.upper(), str.lower()
StrUpper(s) == [i \in 1..Len(s) |-> CharUpper(s[i])]
StrLower(s) == [i \in 1..Len(s) |-> CharLower(s[i])]

IsUpperChar(c) == \E i \in 1..Len(UpperLetters) : UpperLetters[i] = c
IsLowerChar(c) == \E i \in 1..Len(LowerLetters) : LowerLetters[i] = c

\* sequence.find(subseq, start): the lowest index >= start at which subseq begins, or -1
StrFind(s, sub, from) ==
    LET found == {p \in from..(Len(s) - Len(sub)) : SubSeq(s, p + 1, p + Len(sub)) = sub}
    IN  IF found = {} THEN -1 ELSE Min(found)

----------------------------------------------------------------------------
(* find_all_occurrences *)

Bases == {"A", "C", "G", "T"}

s_AA == <<"A", "A">>
s_AAAA == <<"A", "A", "A", "A">>
s_ACGT == <<"A", "C", "G", "T">>
s_ACGTACGTTT == <<"A", "C", "G", "T", "A", "C", "G", "T", "T", "T">>

\* The texts and the patterns the finder is run on
FindTexts == StringsOver(Bases, 0, MaxRefLen) \cup {s_AAAA, s_ACGTACGTTT}
FindPatterns == StringsOver(Bases, 1, MaxMotifLen) \cup {s_ACGT}

\* start = pos + 1, written pos + len(subseq) by a finder that skips overlaps
NextStartSkippingOverlaps(pos, sub) == pos + Len(sub)
NextStart(pos, sub) == pos + 1

FindIdle ==
    /\ sequence = <<>>
    /\ subseq = <<>>
    /\ start = 0
    /\ yielded = <<>>
    /\ fpc = "idle"

FindInit ==
    /\ sequence \in FindTexts
    /\ subseq \in FindPatterns
    /\ start = 0
    /\ yielded = <<>>
    /\ fpc = "loop"

\* pos = sequence.find(subseq, start); pos != -1: yield pos; start = pos + 1
FindYield ==
    /\ fpc = "loop"
    /\ LET pos == StrFind(sequence, subseq, start)
       IN  /\ pos # -1
           /\ yielded' = Append(yielded, pos)
           /\ start' = NextStart(pos, subseq)
    /\ UNCHANGED <<sequence, subseq, fpc>>
    /\ UNCHANGED notFind

\* pos == -1: break
FindBreak ==
    /\ fpc = "loop"
    /\ StrFind(sequence, subseq, start) = -1
    /\ fpc' = "done"
    /\ UNCHANGED <<sequence, subseq, start, yielded>>
    /\ UNCHANGED notFind

\* list(find_all_occurrences(text, pattern)), as the loop computes it
RECURSIVE FindFrom(_, _, _)
FindFrom(text, pattern, from) ==
    LET pos == StrFind(text, pattern, from)
    IN  IF pos = -1 THEN <<>>
        ELSE <<pos>> \o FindFrom(text, pattern, NextStart(pos, pattern))

find_all_occurrences(text, pattern) == FindFrom(text, pattern, 0)

----------------------------------------------------------------------------
(* process_gbff *)

s_A == <<"A">>
s_AT == <<"A", "T">>
s_AC == <<"A", "C">>
s_AAT == <<"A", "A", "T">>
s_ac == <<"a", "c">>
s_aC == <<"a", "C">>
s_acG == <<"a", "c", "G">>
s_acgtn == <<"a", "c", "g", "t", "n">>
s_ACGTN == <<"A", "C", "G", "T", "N">>

\* Seq.complement(): the pairing A-T, C-G (N pairs with itself), in both letter
\* cases; any other character is left as it is
Complement(c) ==
    CASE c = "A" -> "T" [] c = "T" -> "A" [] c = "C" -> "G" [] c = "G" -> "C"
      [] c = "a" -> "t" [] c = "t" -> "a" [] c = "c" -> "g" [] c = "g" -> "c"
      [] OTHER -> c

\* Seq.reverse_complement(), as a reverse complement folded to upper case would be
ReverseComplementUpper(s) == [i \in 1..Len(s) |-> CharUpper(Complement(s[Len(s) + 1 - i]))]
\* Seq.reverse_complement()
ReverseComplement(s) == [i \in 1..Len(s) |-> Complement(s[Len(s) + 1 - i])]

\* forward_seq_str = str(rec.seq).upper()
ForwardStr(seq) == StrUpper(seq)

\* revcomp_seq_str, as a complement that is not reversed would give it
RevcompStrNotReversed(seq) == StrUpper([i \in 1..Len(seq) |-> Complement(seq[i])])
\* revcomp_seq_str = str(rec.seq.reverse_complement()).upper()
RevcompStr(seq) == StrUpper(ReverseComplement(seq))

\* rec.id of the i-th record of a source
RecIds == <<"ref1", "ref2", "ref3", "ref4">>

\* The record list list(SeqIO.parse(...)) gives for the sequences seqs
Records(seqs) == [i \in 1..Len(seqs) |-> [id |-> RecIds[i], seq |-> seqs[i]]]

\* A source that parses to the records recs, and one that does not parse
Parsed(recs) == [ok |-> TRUE, records |-> recs]
Unparseable == [ok |-> FALSE, records |-> <<>>]

\* One entry of target_unitigs.items(), in the mapping's iteration order
Group(idx, utgs) == [pc_idx |-> idx, unitigs |-> utgs]

\* The raw sequences and the unitigs of the single-record, single-unitig calls
RefSeqs == StringsOver(Bases, 1, MaxRefLen) \cup {s_ACGTACGTTT, s_AAAA, s_acgtn, s_ACGTN}
Motifs == StringsOver(Bases, 1, MaxMotifLen) \cup {s_ACGT, s_ac, s_aC, <<"a">>, <<"N">>}

\* The sequences and the target_unitigs of the calls over several records and groups
SmallRefSeqs == {s_AAT, s_acG}
TargetUnitigChoices ==
    { <<Group(0, <<s_AT>>)>>,
      <<Group(0, <<s_A, s_AC>>)>>,
      <<Group(0, <<s_AT>>), Group(1, <<s_AC>>)>>,
      <<Group(2, <<s_AT>>), Group(0, <<s_AT, s_A>>)>> }

\* Two records that the FASTA source gives the same identifier
SameIdRecords == <<[id |-> "ref1", seq |-> s_AAT], [id |-> "ref1", seq |-> s_acG]>>

\* The sources of a run of calls over several sources
SourceChoices ==
    { Unparseable, Parsed(<<>>), Parsed(Records(<<s_AAT>>)), Parsed(Records(<<s_acG, s_AAT>>)) }

LocateIdle ==
    /\ sources = <<>>
    /\ target_unitigs = <<>>
    /\ call_i = 0
    /\ pc = "off"
    /\ all_ref_records = <<>>
    /\ rec_i = 0
    /\ grp_i = 0
    /\ utg_i = 0
    /\ forward_seq_str = <<>>
    /\ revcomp_seq_str = <<>>
    /\ utg_revcomp = <<>>
    /\ matches = <<>>
    /\ prov = <<>>
    /\ returned = <<>>
    /\ warnings = <<>>

\* The arguments of the calls: one record and one unitig of any content, or
\* several records and groups, or several sources
LocateInputs ==
    \/ /\ \E s \in RefSeqs : sources = <<Parsed(Records(<<s>>))>>
       /\ \E m \in Motifs : target_unitigs = <<Group(0, <<m>>)>>
    \/ /\ \/ \E seqs \in StringsOver(SmallRefSeqs, 1, MaxRecords) :
                 sources = <<Parsed(Records(seqs))>>
          \/ sources = <<Parsed(SameIdRecords)>>
       /\ target_unitigs \in TargetUnitigChoices
    \/ /\ sources \in StringsOver(SourceChoices, 1, MaxSources)
       /\ target_unitigs \in {<<Group(0, <<s_AT>>)>>, <<Group(1, <<s_AC, s_A>>)>>}

LocateInit ==
    /\ LocateInputs
    /\ call_i = 0
    /\ pc = "idle"
    /\ all_ref_records = <<>>
    /\ rec_i = 0
    /\ grp_i = 0
    /\ utg_i = 0
    /\ forward_seq_str = <<>>
    /\ revcomp_seq_str = <<>>
    /\ utg_revcomp = <<>>
    /\ matches = <<>>
    /\ prov = <<>>
    /\ returned = <<>>
    /\ warnings = <<>>

\* matches = [], as a list kept from one call to the next would be
StaleMatches == matches
\* matches = []
FreshMatches == <<>>

\* return matches
ReturnMatches(list, origins) ==
    returned' = Append(returned, [source |-> call_i, hits |-> list, prov |-> origins])

\* st.warning(...)
Warn(kind) == warnings' = Append(warnings, [source |-> call_i + 1, kind |-> kind])

\* matches = []; SeqIO.parse raises: st.warning(...); return matches
CallParseFails ==
    /\ pc = "idle"
    /\ call_i < Len(sources)
    /\ ~sources[call_i + 1].ok
    /\ call_i' = call_i + 1
    /\ matches' = FreshMatches
    /\ prov' = <<>>
    /\ Warn("parse")
    /\ returned' = Append(returned, [source |-> call_i + 1, hits |-> matches', prov |-> <<>>])
    /\ UNCHANGED <<sources, target_unitigs, pc, all_ref_records, rec_i, grp_i, utg_i,
                   forward_seq_str, revcomp_seq_str, utg_revcomp>>
    /\ UNCHANGED notLocate

\* matches = []; all_ref_records = list(SeqIO.parse(gbff_path, "fasta"))
CallParses ==
    /\ pc = "idle"
    /\ call_i < Len(sources)
    /\ sources[call_i + 1].ok
    /\ call_i' = call_i + 1
    /\ matches' = FreshMatches
    /\ prov' = <<>>
    /\ all_ref_records' = sources[call_i + 1].records
    /\ rec_i' = 0
    /\ pc' = "parsed"
    /\ UNCHANGED <<sources, target_unitigs, grp_i, utg_i, forward_seq_str,
                   revcomp_seq_str, utg_revcomp, returned, warnings>>
    /\ UNCHANGED notLocate

\* if not all_ref_records: st.warning(...); return matches
NoRecords ==
    /\ pc = "parsed"
    /\ all_ref_records = <<>>
    /\ warnings' = Append(warnings, [source |-> call_i, kind |-> "empty"])
    /\ ReturnMatches(matches, prov)
    /\ pc' = "idle"
    /\ UNCHANGED <<sources, target_unitigs, call_i, all_ref_records, rec_i, grp_i, utg_i,
                   forward_seq_str, revcomp_seq_str, utg_revcomp, matches, prov>>
    /\ UNCHANGED notLocate

\* all_ref_records is not empty: on to the loop over the records
HasRecords ==
    /\ pc = "parsed"
    /\ all_ref_records # <<>>
    /\ pc' = "rec"
    /\ UNCHANGED <<sources, target_unitigs, call_i, all_ref_records, rec_i, grp_i, utg_i,
                   forward_seq_str, revcomp_seq_str, utg_revcomp, matches, prov,
                   returned, warnings>>
    /\ UNCHANGED notLocate

\* for rec in all_ref_records: rec_id, forward_seq_str, revcomp_seq_str
NextRecord ==
    /\ pc = "rec"
    /\ rec_i < Len(all_ref_records)
    /\ rec_i' = rec_i + 1
    /\ forward_seq_str' = ForwardStr(all_ref_records[rec_i + 1].seq)
    /\ revcomp_seq_str' = RevcompStr(all_ref_records[rec_i + 1].seq)
    /\ grp_i' = 0
    /\ pc' = "grp"
    /\ UNCHANGED <<sources, target_unitigs, call_i, all_ref_records, utg_i, utg_revcomp,
                   matches, prov, returned, warnings>>
    /\ UNCHANGED notLocate

\* the loop over the records is over: return matches
Return ==
    /\ pc = "rec"
    /\ rec_i = Len(all_ref_records)
    /\ ReturnMatches(matches, prov)
    /\ pc' = "idle"
    /\ UNCHANGED <<sources, target_unitigs, call_i, all_ref_records, rec_i, grp_i, utg_i,
                   forward_seq_str, revcomp_seq_str, utg_revcomp, matches, prov, warnings>>
    /\ UNCHANGED notLocate

\* for pc_idx, unitigs in target_unitigs.items()
NextGroup ==
    /\ pc = "grp"
    /\ grp_i < Len(target_unitigs)
    /\ grp_i' = grp_i + 1
    /\ utg_i' = 0
    /\ pc' = "utg"
    /\ UNCHANGED <<sources, target_unitigs, call_i, all_ref_records, rec_i,
                   forward_seq_str, revcomp_seq_str, utg_revcomp, matches, prov,
                   returned, warnings>>
    /\ UNCHANGED notLocate

GroupsDone ==
    /\ pc = "grp"
    /\ grp_i = Len(target_unitigs)
    /\ pc' = "rec"
    /\ UNCHANGED <<sources, target_unitigs, call_i, all_ref_records, rec_i, grp_i, utg_i,
                   forward_seq_str, revcomp_seq_str, utg_revcomp, matches, prov,
                   returned, warnings>>
    /\ UNCHANGED notLocate

\* for utg in unitigs: utg_revcomp = str(Seq(utg).reverse_complement())
NextUnitig ==
    /\ pc = "utg"
    /\ utg_i < Len(target_unitigs[grp_i].unitigs)
    /\ utg_i' = utg_i + 1
    /\ utg_revcomp' = ReverseComplement(target_unitigs[grp_i].unitigs[utg_i + 1])
    /\ pc' = "scan1"
    /\ UNCHANGED <<sources, target_unitigs, call_i, all_ref_records, rec_i, grp_i,
                   forward_seq_str, revcomp_seq_str, matches, prov, returned, warnings>>
    /\ UNCHANGED notLocate

UnitigsDone ==
    /\ pc = "utg"
    /\ utg_i = Len(target_unitigs[grp_i].unitigs)
    /\ pc' = "grp"
    /\ UNCHANGED <<sources, target_unitigs, call_i, all_ref_records, rec_i, grp_i, utg_i,
                   forward_seq_str, revcomp_seq_str, utg_revcomp, matches, prov,
                   returned, warnings>>
    /\ UNCHANGED notLocate

\* The unitig of the current iteration, and (pc_idx + 1, utg, rec_id)
utg == target_unitigs[grp_i].unitigs[utg_i]
CurrentHit == <<target_unitigs[grp_i].pc_idx + 1, utg, all_ref_records[rec_i].id>>

\* matches.append(...), as an insertion at the head of the list would be
PrependHits(list, new) == new \o list
\* matches.append(...) for every hit of one scan
AppendHits(list, new) == list \o new

\* The four scans of one unitig, in the order the code runs them
ScanPcs == <<"scan1", "scan2", "scan3", "scan4">>

\* for _ in find_all_occurrences(strand, pattern): matches.append((pc_idx + 1, utg, rec_id))
Scan(k, strand, pattern, next) ==
    /\ pc = ScanPcs[k]
    /\ LET occ == find_all_occurrences(strand, pattern)
       IN  /\ matches' = AppendHits(matches, [i \in 1..Len(occ) |-> CurrentHit])
           /\ prov' = AppendHits(prov, [i \in 1..Len(occ) |->
                                 [rec |-> rec_i, grp |-> grp_i, utg |-> utg_i,
                                  scan |-> k, pos |-> occ[i]]])
    /\ pc' = next
    /\ UNCHANGED <<sources, target_unitigs, call_i, all_ref_records, rec_i, grp_i, utg_i,
                   forward_seq_str, revcomp_seq_str, utg_revcomp, returned, warnings>>
    /\ UNCHANGED notLocate

ScanForwardUtg == Scan(1, forward_seq_str, utg, "scan2")

\* the second scan, as a locator that skips a unitig equal to its reverse complement would run it
ScanForwardRevcompDeduplicated ==
    /\ pc = "scan2"
    /\ IF utg_revcomp = utg
       THEN /\ pc' = "scan3"
            /\ UNCHANGED <<sources, target_unitigs, call_i, all_ref_records, rec_i, grp_i,
                           utg_i, forward_seq_str, revcomp_seq_str, utg_revcomp, matches,
                           prov, returned, warnings, notLocate>>
       ELSE Scan(2, forward_seq_str, utg_revcomp, "scan3")
ScanForwardRevcomp == Scan(2, forward_seq_str, utg_revcomp, "scan3")

ScanReverseUtg == Scan(3, revcomp_seq_str, utg, "scan4")

ScanReverseRevcomp == Scan(4, revcomp_seq_str, utg_revcomp, "utg")

LocateNext ==
    \/ CallParseFails
    \/ CallParses
    \/ NoRecords
    \/ HasRecords
    \/ NextRecord
    \/ Return
    \/ NextGroup
    \/ GroupsDone
    \/ NextUnitig
    \/ UnitigsDone
    \/ ScanForwardUtg
    \/ ScanForwardRevcomp
    \/ ScanReverseUtg
    \/ ScanReverseRevcomp

----------------------------------------------------------------------------
(* Properties of find_all_occurrences *)

\* T[p:p+len(P)] == P
IsOccurrence(T, P, p) ==
    /\ p >= 0
    /\ p + Len(P) <= Len(T)
    /\ \A k \in 1..Len(P) : T[p + k] = P[k]

Occurrences(T, P) == {p \in 0..Len(T) : IsOccurrence(T, P, p)}

OccCount(T, P) == Cardinality(Occurrences(T, P))

\* C1: every position find_all_occurrences yields is an occurrence of the pattern,
\* no position is yielded twice, and when the generator ends every occurrence
\* (overlapping ones included) has been yielded; the list the generator gives is
\* the list of the positions yielded.
C1_FinderExact ==
    /\ \A i \in 1..Len(yielded) : IsOccurrence(sequence, subseq, yielded[i])
    /\ \A i, j \in 1..Len(yielded) : i # j => yielded[i] # yielded[j]
    /\ fpc = "done" =>
          /\ \A p \in Occurrences(sequence, subseq) :
                \E i \in 1..Len(yielded) : yielded[i] = p
          /\ find_all_occurrences(sequence, subseq) = yielded

\* "AA" in "AAAA" has given 0, 1, 2
C1_Witness ==
    /\ fpc = "done"
    /\ sequence = s_AAAA
    /\ subseq = s_AA
    /\ yielded = <<0, 1, 2>>

----------------------------------------------------------------------------
(* Properties of process_gbff *)

\* The records of the source of the k-th call that returned
RecordsOf(k) == sources[returned[k].source].records

\* The strand and the pattern of the n-th scan of unitig m over the sequence seq
ScanStrand(n, seq) == IF n \in {1, 2} THEN ForwardStr(seq) ELSE RevcompStr(seq)
ScanPattern(n, m) == IF n \in {1, 3} THEN m ELSE ReverseComplement(m)

\* The number of occurrences the four scans of m over seq have between them
FourScanCount(seq, m) ==
    OccCount(ScanStrand(1, seq), ScanPattern(1, m)) + OccCount(ScanStrand(2, seq), ScanPattern(2, m))
    + OccCount(ScanStrand(3, seq), ScanPattern(3, m)) + OccCount(ScanStrand(4, seq), ScanPattern(4, m))

\* How often the hit h is in the list
CountOf(list, h) == Cardinality({i \in 1..Len(list) : list[i] = h})

\* No other record of the source has the identifier of record r (the data model's
\* "identifier unique per input file")
IdIsUnique(recs, r) == \A q \in 1..Len(recs) : q # r => recs[q].id # recs[r].id

\* How many hits of a list of origins the n-th scan of unitig u of group g over
\* record r gave
ScanHits(origins, r, g, u, n) ==
    Cardinality({i \in 1..Len(origins) :
        origins[i].rec = r /\ origins[i].grp = g /\ origins[i].utg = u /\ origins[i].scan = n})

\* C2: in the list a call returns, record r, group g and unitig m have as many
\* hits as the four scans (forward, m), (forward, rc(m)), (reverse, m),
\* (reverse, rc(m)) have occurrences between them, nothing being merged across
\* scans; this is the number of hits (g + 1, m, r.id) of the list when r's
\* identifier is unique in the source; and every hit of the list is the hit of
\* some record, group and unitig.
C2_HitCounts ==
    \A k \in 1..Len(returned) :
        LET recs == RecordsOf(k)
            list == returned[k].hits
            origins == returned[k].prov
        IN  /\ \A r \in 1..Len(recs) : \A g \in 1..Len(target_unitigs) :
                  \A u \in 1..Len(target_unitigs[g].unitigs) :
                      LET m == target_unitigs[g].unitigs[u]
                          hit == <<target_unitigs[g].pc_idx + 1, m, recs[r].id>>
                      IN  /\ ScanHits(origins, r, g, u, 1) + ScanHits(origins, r, g, u, 2)
                                + ScanHits(origins, r, g, u, 3) + ScanHits(origins, r, g, u, 4)
                                = FourScanCount(recs[r].seq, m)
                          /\ \A i \in 1..Len(origins) :
                                (origins[i].rec = r /\ origins[i].grp = g /\ origins[i].utg = u)
                                    => list[i] = hit
                          /\ IdIsUnique(recs, r) => CountOf(list, hit) = FourScanCount(recs[r].seq, m)
            /\ Len(origins) = Len(list)
            /\ \A i \in 1..Len(list) :
                  \E r \in 1..Len(recs) : \E g \in 1..Len(target_unitigs) :
                      \E u \in 1..Len(target_unitigs[g].unitigs) :
                          list[i] = <<target_unitigs[g].pc_idx + 1,
                                      target_unitigs[g].unitigs[u], recs[r].id>>

\* "ref1" = "ACGTACGTTT" with the group {0: {"ACGT"}} has returned its hits:
\* positions 0 and 4 of the forward strand and 2 and 6 of the reverse strand
\* "AAACGTACGT", each found by two scans
C2_Witness ==
    /\ Len(returned) = 1
    /\ RecordsOf(1) = <<[id |-> "ref1", seq |-> s_ACGTACGTTT]>>
    /\ target_unitigs = <<Group(0, <<s_ACGT>>)>>
    /\ returned[1].hits = [i \in 1..8 |-> <<1, s_ACGT, "ref1">>]

\* Lexicographic order on the origins of two hits
OriginBefore(a, b) ==
    \/ a.rec < b.rec
    \/ a.rec = b.rec /\ a.grp < b.grp
    \/ a.rec = b.rec /\ a.grp = b.grp /\ a.utg < b.utg
    \/ a.rec = b.rec /\ a.grp = b.grp /\ a.utg = b.utg /\ a.scan < b.scan
    \/ a.rec = b.rec /\ a.grp = b.grp /\ a.utg = b.utg /\ a.scan = b.scan /\ a.pos < b.pos

\* The hit list and the origin of each of its hits belong together: the i-th hit
\* is the hit of the record, group and unitig of the i-th origin, whose position
\* is an occurrence of that scan
OriginsMatch(recs, list, origins) ==
    /\ Len(origins) = Len(list)
    /\ \A i \in 1..Len(list) :
          LET o == origins[i]
              m == target_unitigs[o.grp].unitigs[o.utg]
          IN  /\ list[i] = <<target_unitigs[o.grp].pc_idx + 1, m, recs[o.rec].id>>
              /\ IsOccurrence(ScanStrand(o.scan, recs[o.rec].seq), ScanPattern(o.scan, m), o.pos)

\* C3: the hits of the list are in record order, then group order (the order of
\* target_unitigs.items()), then unitig order within the group, then scan order,
\* then position order: of two hits, the earlier one in the list has the
\* lexicographically smaller (record, group, unitig, scan, position).
C3_HitOrder ==
    /\ \A i, j \in 1..Len(prov) : i < j => OriginBefore(prov[i], prov[j])
    /\ \A k \in 1..Len(returned) :
          /\ OriginsMatch(RecordsOf(k), returned[k].hits, returned[k].prov)
          /\ \A i, j \in 1..Len(returned[k].prov) :
                i < j => OriginBefore(returned[k].prov[i], returned[k].prov[j])

\* A call has returned hits of two records, of two groups and of two scans
C3_Witness ==
    \E k \in 1..Len(returned) :
        LET origins == returned[k].prov
        IN  /\ \E i, j \in 1..Len(origins) : origins[i].rec < origins[j].rec
            /\ \E i, j \in 1..Len(origins) :
                  origins[i].rec = origins[j].rec /\ origins[i].grp < origins[j].grp
            /\ \E i, j \in 1..Len(origins) :
                  /\ origins[i].rec = origins[j].rec /\ origins[i].grp = origins[j].grp
                  /\ origins[i].utg = origins[j].utg /\ origins[i].scan < origins[j].scan
            /\ \E i, j \in 1..Len(origins) :
                  /\ origins[i].rec = origins[j].rec /\ origins[i].grp = origins[j].grp
                  /\ origins[i].utg = origins[j].utg /\ origins[i].scan = origins[j].scan
                  /\ origins[i].pos < origins[j].pos

\* n times the element x
Repeat(x, n) == [i \in 1..n |-> x]

\* f[1] \o ... \o f[n]
RECURSIVE ConcatAll(_, _)
ConcatAll(f, n) == IF n = 0 THEN <<>> ELSE ConcatAll(f, n - 1) \o f[n]

\* The hits of the records recs alone: for each record, group, unitig and scan
\* in turn, one hit per occurrence
HitsOfAlone(recs) ==
    ConcatAll([r \in 1..Len(recs) |->
      ConcatAll([g \in 1..Len(target_unitigs) |->
        ConcatAll([u \in 1..Len(target_unitigs[g].unitigs) |->
          ConcatAll([n \in 1..4 |->
            Repeat(<<target_unitigs[g].pc_idx + 1, target_unitigs[g].unitigs[u], recs[r].id>>,
                   OccCount(ScanStrand(n, recs[r].seq),
                            ScanPattern(n, target_unitigs[g].unitigs[u])))],
            4)],
          Len(target_unitigs[g].unitigs))],
        Len(target_unitigs))],
      Len(recs))

WarningsFor(k) == {i \in 1..Len(warnings) : warnings[i].source = k}

\* C4: every call that has been made has returned a list; a call on a source that
\* does not parse, or that parses to no record, has returned the empty list and
\* has emitted one warning; and a call on any other source has returned the hits
\* of that source alone, whatever the calls before it were, without a warning.
C4_FailureIsolated ==
    /\ Len(returned) = (IF pc = "idle" THEN call_i ELSE call_i - 1)
    /\ \A k \in 1..Len(returned) :
          /\ returned[k].source = k
          /\ IF ~sources[k].ok \/ sources[k].records = <<>>
             THEN /\ returned[k].hits = <<>>
                  /\ Cardinality(WarningsFor(k)) = 1
                  /\ \A i \in WarningsFor(k) :
                        warnings[i].kind = (IF sources[k].ok THEN "empty" ELSE "parse")
             ELSE /\ returned[k].hits = HitsOfAlone(sources[k].records)
                  /\ WarningsFor(k) = {}

\* Two calls have returned: the first on a source that failed, the second with hits
C4_Witness ==
    /\ Len(returned) = 2
    /\ ~sources[1].ok
    /\ returned[1].hits = <<>>
    /\ returned[2].hits # <<>>

\* s == s.upper()
IsUpperOnly(s) == s = StrUpper(s)

ScanningPcs == {"scan1", "scan2", "scan3", "scan4"}

C10_StrandSymmetry ==
    \A k \in 1..Len(returned) :
        LET recs == RecordsOf(k)
            origins == returned[k].prov
        IN  \A r \in 1..Len(recs) : \A g \in 1..Len(target_unitigs) :
                \A u \in 1..Len(target_unitigs[g].unitigs) :
                    LET m == target_unitigs[g].unitigs[u]
                        hit == <<target_unitigs[g].pc_idx + 1, m, recs[r].id>>
                        total == ScanHits(origins, r, g, u, 1) + ScanHits(origins, r, g, u, 2)
                                 + ScanHits(origins, r, g, u, 3) + ScanHits(origins, r, g, u, 4)
                    IN  /\ ScanHits(origins, r, g, u, 3) = ScanHits(origins, r, g, u, 2)
                        /\ ScanHits(origins, r, g, u, 4) = ScanHits(origins, r, g, u, 1)
                        /\ total % 2 = 0
                        /\ CountOf(returned[k].hits, hit) % 2 = 0
                        /\ ReverseComplement(m) = m =>
                              /\ total = 4 * OccCount(StrUpper(recs[r].seq), m)
                              /\ IdIsUnique(recs, r) => CountOf(returned[k].hits, hit) = total

\* A call has returned hits of a unitig that is not its own reverse complement,
\* found on the reverse strand, and another call or the same hits of one that is
C10_Witness ==
    /\ \E k \in 1..Len(returned) : \E i \in 1..Len(returned[k].prov) :
          LET o == returned[k].prov[i]
              m == target_unitigs[o.grp].unitigs[o.utg]
          IN  ReverseComplement(m) # m /\ o.scan = 4
    /\ \E k \in 1..Len(returned) : \E i \in 1..Len(returned[k].prov) :
          LET o == returned[k].prov[i]
              m == target_unitigs[o.grp].unitigs[o.utg]
          IN  ReverseComplement(m) = m /\ o.scan = 3

----------------------------------------------------------------------------
(* get_overlapping_genes *)

\* feat.qualifiers.get(name, ["?"])[0]
Qualifier(feat, name) ==
    IF name \in DOMAIN feat.qualifiers THEN feat.qualifiers[name][1] ELSE "?"

\* The overlap test, as a test that leaves out touching intervals would be
OverlapsStrictly(f_start, f_end, from, to) == ~(f_end <= from \/ f_start >= to)
\* not (f_end < start_pos or f_start > end_pos)
Overlaps(f_start, f_end, from, to) == ~(f_end < from \/ f_start > to)

\* feat.type in ["gene", "CDS"]
IsGeneOrCDS(feat) == feat.type \in {"gene", "CDS"}

Feature(type, from, to, quals) == [type |-> type, start |-> from, end |-> to, qualifiers |-> quals]

\* The coordinates of the features and of the query
Coords == {100, 150, 200, 201, 210}
FeatureTypes == {"gene", "CDS", "tRNA"}
QualifierChoices ==
    { <<>>,
      [locus_tag |-> <<"LT1">>],
      [locus_tag |-> <<"LT1">>, gene |-> <<"rplL", "rplL_2">>, product |-> <<"hydrolase">>] }

\* Every feature over the coordinates (start <= end)
AllFeatures ==
    {Feature(t, a, b, q) : t \in FeatureTypes, a \in Coords, b \in Coords, q \in QualifierChoices}

\* The features of the lists of several features
SmallFeatures ==
    { Feature("gene", 100, 200, [gene |-> <<"rplL">>]),
      Feature("CDS", 100, 200, [locus_tag |-> <<"LT1">>, product |-> <<"hydrolase">>]),
      Feature("tRNA", 150, 201, <<>>),
      Feature("gene", 201, 210, <<>>) }

OverlapIdle ==
    /\ features = <<>>
    /\ start_pos = 0
    /\ end_pos = 0
    /\ feat_i = 0
    /\ hits = <<>>
    /\ opc = "off"

OverlapInit ==
    /\ \/ \E f \in AllFeatures : f.start <= f.end /\ features = <<f>>
       \/ features \in StringsOver(SmallFeatures, 0, MaxFeatures)
    /\ start_pos \in Coords
    /\ end_pos \in Coords
    /\ feat_i = 0
    /\ hits = <<>>
    /\ opc = "loop"

\* The feature of the next iteration of: for feat in features
feat == features[feat_i + 1]

\* feat.type is neither "gene" nor "CDS"
SkipOtherType ==
    /\ opc = "loop"
    /\ feat_i < Len(features)
    /\ ~IsGeneOrCDS(feat)
    /\ feat_i' = feat_i + 1
    /\ UNCHANGED <<features, start_pos, end_pos, hits, opc>>
    /\ UNCHANGED notOverlap

\* a gene or a CDS that does not overlap the range
SkipNoOverlap ==
    /\ opc = "loop"
    /\ feat_i < Len(features)
    /\ IsGeneOrCDS(feat)
    /\ ~Overlaps(feat.start, feat.end, start_pos, end_pos)
    /\ feat_i' = feat_i + 1
    /\ UNCHANGED <<features, start_pos, end_pos, hits, opc>>
    /\ UNCHANGED notOverlap

\* hits.append((feat.type, f_start, f_end, locus_tag, gene, product))
AppendOverlap ==
    /\ opc = "loop"
    /\ feat_i < Len(features)
    /\ IsGeneOrCDS(feat)
    /\ Overlaps(feat.start, feat.end, start_pos, end_pos)
    /\ hits' = Append(hits, <<feat.type, feat.start, feat.end, Qualifier(feat, "locus_tag"),
                             Qualifier(feat, "gene"), Qualifier(feat, "product")>>)
    /\ feat_i' = feat_i + 1
    /\ UNCHANGED <<features, start_pos, end_pos, opc>>
    /\ UNCHANGED notOverlap

\* return hits
OverlapReturn ==
    /\ opc = "loop"
    /\ feat_i = Len(features)
    /\ opc' = "done"
    /\ UNCHANGED <<features, start_pos, end_pos, feat_i, hits>>
    /\ UNCHANGED notOverlap

OverlapNext == SkipOtherType \/ SkipNoOverlap \/ AppendOverlap \/ OverlapReturn

\* The features among the first n that the claim says are returned
Selected(n) ==
    {i \in 1..n :
        /\ features[i].type = "gene" \/ features[i].type = "CDS"
        /\ ~(features[i].end < start_pos \/ features[i].start > end_pos)}

\* The j-th smallest element of the set S of numbers
Nth(S, j) == CHOOSE x \in S : Cardinality({y \in S : y < x}) = j - 1

\* The tag of a feature, "?" when the feature has none
TagOrUnknown(f, name) ==
    IF \E n \in DOMAIN f.qualifiers : n = name THEN Head(f.qualifiers[name]) ELSE "?"

\* C8: the hits are, in the order of the features, one tuple for each gene or CDS
\* feature seen so far for which not (feature.end < start_pos or feature.start >
\* end_pos), and no other tuple; touching counts as overlapping.
C8_OverlapExact ==
    /\ Len(hits) = Cardinality(Selected(feat_i))
    /\ \A j \in 1..Len(hits) :
          LET f == features[Nth(Selected(feat_i), j)]
          IN  hits[j] = <<f.type, f.start, f.end, TagOrUnknown(f, "locus_tag"),
                          TagOrUnknown(f, "gene"), TagOrUnknown(f, "product")>>
    /\ opc = "done" =>
          /\ feat_i = Len(features)
          /\ \A i \in 1..Len(features) :
                (features[i].type = "gene" /\ features[i].start = 100 /\ features[i].end = 200) =>
                    /\ (start_pos = 200 /\ end_pos = 210) => \E j \in 1..Len(hits) : Nth(Selected(feat_i), j) = i
                    /\ (start_pos = 201 /\ end_pos = 210) => i \notin Selected(feat_i)

\* Of a gene at [100,200], a tRNA and a gene at [201,210], the query [200,210] has
\* returned the two genes, in that order
C8_Witness ==
    /\ opc = "done"
    /\ start_pos = 200
    /\ end_pos = 210
    /\ features = <<Feature("gene", 100, 200, [gene |-> <<"rplL">>]),
                    Feature("tRNA", 150, 201, <<>>),
                    Feature("gene", 201, 210, <<>>)>>
    /\ hits = << <<"gene", 100, 200, "?", "rplL", "?">>, <<"gene", 201, 210, "?", "?", "?">> >>

----------------------------------------------------------------------------
(* extract_genes *)

\* The overlap hits extract_genes is given
HitChoices ==
    {<<"gene", 100, 200, lt, gene, prod>> :
        lt \in {"?", "LT1"}, gene \in {"?", "rplL"}, prod \in {"?", "hydrolase"}}

ExtractIdle ==
    /\ overlap_hits = <<>>
    /\ hit_i = 0
    /\ genes = <<>>
    /\ gpc = "off"

ExtractInit ==
    /\ overlap_hits \in StringsOver(HitChoices, 0, MaxHits)
    /\ hit_i = 0
    /\ genes = <<>>
    /\ gpc = "loop"

\* (ftype, fs, fe, lt, gene, prod) of the next iteration
hit_lt == overlap_hits[hit_i + 1][4]
hit_gene == overlap_hits[hit_i + 1][5]
hit_prod == overlap_hits[hit_i + 1][6]

\* the last fallback, as one that forgets the literal would be
ProductAsItIs(prod) == prod
\* prod if prod != "?" else "Unknown"
ProductOrUnknown(prod) == IF prod # "?" THEN prod ELSE "Unknown"

\* if gene != "?": genes.append(gene)
TakeGene ==
    /\ gpc = "loop"
    /\ hit_i < Len(overlap_hits)
    /\ hit_gene # "?"
    /\ genes' = Append(genes, hit_gene)
    /\ hit_i' = hit_i + 1
    /\ UNCHANGED <<overlap_hits, gpc>>
    /\ UNCHANGED notExtract

\* elif lt != "?": genes.append(lt)
TakeLocusTag ==
    /\ gpc = "loop"
    /\ hit_i < Len(overlap_hits)
    /\ hit_gene = "?"
    /\ hit_lt # "?"
    /\ genes' = Append(genes, hit_lt)
    /\ hit_i' = hit_i + 1
    /\ UNCHANGED <<overlap_hits, gpc>>
    /\ UNCHANGED notExtract

\* else: genes.append(prod if prod != "?" else "Unknown")
TakeProduct ==
    /\ gpc = "loop"
    /\ hit_i < Len(overlap_hits)
    /\ hit_gene = "?"
    /\ hit_lt = "?"
    /\ genes' = Append(genes, ProductOrUnknown(hit_prod))
    /\ hit_i' = hit_i + 1
    /\ UNCHANGED <<overlap_hits, gpc>>
    /\ UNCHANGED notExtract

\* return genes
ExtractReturn ==
    /\ gpc = "loop"
    /\ hit_i = Len(overlap_hits)
    /\ gpc' = "done"
    /\ UNCHANGED <<overlap_hits, hit_i, genes>>
    /\ UNCHANGED notExtract

ExtractNext == TakeGene \/ TakeLocusTag \/ TakeProduct \/ ExtractReturn

\* C9: genes has one name per overlap hit taken so far, in the same order: the
\* gene symbol if it is not "?", else the locus tag if it is not "?", else the
\* product if it is not "?", else "Unknown"; at the return every hit has its name.
C9_NamePriority ==
    /\ Len(genes) = hit_i
    /\ gpc = "done" => Len(genes) = Len(overlap_hits)
    /\ \A i \in 1..Len(genes) :
          LET h == overlap_hits[i]
          IN  /\ h[5] # "?" => genes[i] = h[5]
              /\ (h[5] = "?" /\ h[4] # "?") => genes[i] = h[4]
              /\ (h[5] = "?" /\ h[4] = "?" /\ h[6] # "?") => genes[i] = h[6]
              /\ (h[5] = "?" /\ h[4] = "?" /\ h[6] = "?") => genes[i] = "Unknown"

\* gene "?", locus tag "LT1", product "hydrolase" has given "LT1", and all three
\* "?" has given "Unknown"
C9_Witness ==
    /\ gpc = "done"
    /\ overlap_hits = << <<"gene", 100, 200, "LT1", "?", "hydrolase">>,
                         <<"gene", 100, 200, "?", "?", "?">> >>
    /\ genes = <<"LT1", "Unknown">>

----------------------------------------------------------------------------
(* load_panaroo_csv *)

s_nan == <<"n", "a", "n">>
s_blank == <<" ", " ">>
s_group_ == <<"g", "r", "o", "u", "p", "_">>
s_hypothetical == <<"h", "y", "p", "o", "t", "h", "e", "t", "i", "c", "a", "l">>
s_group_1 == <<"g", "r", "o", "u", "p", "_", "1">>
s_rplL == <<"r", "p", "l", "L">>
s_rpmA == <<"r", "p", "m", "A">>
s_ATP == <<"A", "T", "P">>
s_group_500_rplL == <<"g", "r", "o", "u", "p", "_", "5", "0", "0", ";", "r", "p", "l", "L">>
s_rplL_group_500 == <<"r", "p", "l", "L", ";", "g", "r", "o", "u", "p", "_", "5", "0", "0">>
s_empty_rplL == <<" ", ";", " ", "r", "p", "l", "L", " ">>
s_group_12 == <<"g", "r", "o", "u", "p", "_", "1", "2">>
s_hypothetical_protein == <<"h", "y", "p", "o", "t", "h", "e", "t", "i", "c", "a", "l", " ", "p", "r", "o", "t", "e", "i", "n">>
s_Hypothetical_protein == <<"H", "y", "p", "o", "t", "h", "e", "t", "i", "c", "a", "l", " ", "p", "r", "o", "t", "e", "i", "n">>
s_ATP_synthase_subunit == <<"A", "T", "P", " ", "s", "y", "n", "t", "h", "a", "s", "e", " ", "s", "u", "b", "u", "n", "i", "t">>
s_group_7_like == <<"g", "r", "o", "u", "p", "_", "7", " ", "l", "i", "k", "e">>
s_sp_hypothetical_x == <<" ", "h", "y", "p", "o", "t", "h", "e", "t", "i", "c", "a", "l", " ", "x">>

Max(S) == CHOOSE x \in S : \A y \in S : x >= y

\* s.strip()
Strip(s) ==
    LET solid == {i \in 1..Len(s) : s[i] # " "}
    IN  IF solid = {} THEN <<>> ELSE SubSeq(s, Min(solid), Max(solid))

\* s.split(sep) for a one-character sep
RECURSIVE SplitOn(_, _)
SplitOn(s, sep) ==
    LET at == {i \in 1..Len(s) : s[i] = sep}
    IN  IF at = {} THEN <<s>>
        ELSE <<SubSeq(s, 1, Min(at) - 1)>> \o SplitOn(SubSeq(s, Min(at) + 1, Len(s)), sep)

\* s.split(): the words of s
RECURSIVE SplitWhitespace(_)
SplitWhitespace(s) ==
    LET solid == {i \in 1..Len(s) : s[i] # " "}
    IN  IF solid = {} THEN <<>>
        ELSE LET rest == SubSeq(s, Min(solid), Len(s))
                 gaps == {i \in 1..Len(rest) : rest[i] = " "}
             IN  IF gaps = {} THEN <<rest>>
                 ELSE <<SubSeq(rest, 1, Min(gaps) - 1)>>
                          \o SplitWhitespace(SubSeq(rest, Min(gaps), Len(rest)))

\* s.startswith(prefix)
StartsWith(s, prefix) == Len(s) >= Len(prefix) /\ SubSeq(s, 1, Len(prefix)) = prefix

\* not s or s.strip().lower() in ["nan", ""]
is_blank_or_nan(s) == s = <<>> \/ StrLower(Strip(s)) \in {s_nan, <<>>}

\* short_name = None: None is as false as the empty string
None == <<>>

\* [x.strip() for x in nonunique.split(';') if x.strip()]
Splitted(nonunique) ==
    LET parts == SplitOn(nonunique, ";")
    IN  SelectSeq([i \in 1..Len(parts) |-> Strip(parts[i])], LAMBDA x : x # <<>>)

\* first_nonunique, as the first part that does not start with "group_" would be
FirstNonGroupPart(splitted) ==
    LET good == {i \in 1..Len(splitted) : ~StartsWith(splitted[i], s_group_)}
    IN  IF good # {} THEN splitted[Min(good)]
        ELSE IF splitted # <<>> THEN splitted[1] ELSE <<>>
\* first_nonunique = splitted[0] if splitted else ""
FirstNonunique(splitted) == IF splitted # <<>> THEN splitted[1] ELSE <<>>

\* short_name after the "Non-unique Gene name" step
NameFromNonunique(nonunique) ==
    IF ~is_blank_or_nan(nonunique)
    THEN LET first_nonunique == FirstNonunique(Splitted(nonunique))
         IN  IF first_nonunique # <<>> /\ ~StartsWith(first_nonunique, s_group_)
             THEN first_nonunique
             ELSE None
    ELSE None

\* short_name after the "Annotation" step
NameFromAnnotation(short_name, annotation) ==
    IF short_name = <<>>
    THEN IF ~is_blank_or_nan(annotation) /\ ~StartsWith(StrLower(annotation), s_hypothetical)
         THEN Strip(SplitWhitespace(annotation)[1])
         ELSE short_name
    ELSE short_name

\* short_name as it is stored: the cluster id when nothing else is left
ShortName(row) ==
    LET short_name == NameFromAnnotation(NameFromNonunique(row.nonunique), row.annotation)
    IN  IF short_name = <<>> \/ StartsWith(short_name, s_group_) THEN row.Gene ELSE short_name

\* map_dict[cluster_id] = short_name, as a map that keeps its first entry would do it
StoreIfAbsent(map, cluster_id, short_name) ==
    [c \in DOMAIN map \cup {cluster_id} |-> IF c \in DOMAIN map THEN map[c] ELSE short_name]
\* map_dict[cluster_id] = short_name
Store(map, cluster_id, short_name) ==
    [c \in DOMAIN map \cup {cluster_id} |-> IF c = cluster_id THEN short_name ELSE map[c]]

Row(gene, nonunique, annotation) == [Gene |-> gene, nonunique |-> nonunique, annotation |-> annotation]

\* The cells of the three columns, as str(row[...]) gives them ("nan": an empty cell)
ClusterIds == {s_group_1, s_rplL}
NonuniqueChoices ==
    {s_nan, s_blank, s_group_500_rplL, s_rplL_group_500, s_empty_rplL, s_group_12, s_rpmA}
AnnotationChoices ==
    {s_nan, s_hypothetical_protein, s_Hypothetical_protein, s_ATP_synthase_subunit,
     s_group_7_like, s_sp_hypothetical_x}

\* The rows of the tables of several rows
SmallRows ==
    { Row(s_group_1, s_rplL, s_nan),
      Row(s_group_1, s_group_500_rplL, s_ATP_synthase_subunit),
      Row(s_group_1, s_nan, s_hypothetical_protein),
      Row(s_rplL, s_rpmA, s_nan) }

PanarooIdle ==
    /\ df = <<>>
    /\ row_i = 0
    /\ map_dict = <<>>
    /\ ppc = "off"

PanarooInit ==
    /\ \/ \E g \in ClusterIds : \E n \in NonuniqueChoices : \E a \in AnnotationChoices :
             df = <<Row(g, n, a)>>
       \/ df \in StringsOver(SmallRows, 0, MaxRows)
    /\ row_i = 0
    /\ map_dict = <<>>
    /\ ppc = "loop"

\* one iteration of: for i, row in df.iterrows()
ProcessRow ==
    /\ ppc = "loop"
    /\ row_i < Len(df)
    /\ map_dict' = Store(map_dict, df[row_i + 1].Gene, ShortName(df[row_i + 1]))
    /\ row_i' = row_i + 1
    /\ UNCHANGED <<df, ppc>>
    /\ UNCHANGED notPanaroo

\* return map_dict
PanarooReturn ==
    /\ ppc = "loop"
    /\ row_i = Len(df)
    /\ ppc' = "done"
    /\ UNCHANGED <<df, row_i, map_dict>>
    /\ UNCHANGED notPanaroo

PanarooNext == ProcessRow \/ PanarooReturn

\* The rows seen so far that are the last seen of their cluster id
LastSeen == {i \in 1..row_i : \A j \in (i + 1)..row_i : df[j].Gene # df[i].Gene}

\* The parts of a non-unique name, trimmed, the empty ones left out
TrimmedParts(nonunique) ==
    LET parts == SplitOn(nonunique, ";")
        kept == {i \in 1..Len(parts) : Strip(parts[i]) # <<>>}
    IN  [j \in 1..Cardinality(kept) |-> Strip(parts[Nth(kept, j)])]

HasSeveralParts(nonunique) == Len(SplitOn(nonunique, ";")) >= 2

\* C5 as stated: a row whose non-unique name has several parts gets as display
\* name the first part (trimmed) that does not start with "group_", whatever its
\* annotation is.
C5_FirstNonGroupPart ==
    \A i \in LastSeen :
        LET parts == TrimmedParts(df[i].nonunique)
            good == {j \in 1..Len(parts) : ~StartsWith(parts[j], s_group_)}
        IN  (HasSeveralParts(df[i].nonunique) /\ good # {}) =>
                map_dict[df[i].Gene] = parts[Min(good)]

\* The name a row gets when its non-unique name gives none: the first word of
\* the annotation, or the cluster id
AnnotationWordOrId(row) ==
    LET words == SplitWhitespace(row.annotation)
    IN  IF /\ words # <<>>
           /\ StrLower(Strip(row.annotation)) # s_nan
           /\ ~StartsWith(StrLower(row.annotation), s_hypothetical)
           /\ ~StartsWith(words[1], s_group_)
        THEN words[1]
        ELSE row.Gene

\* C5 as amended: of the parts of a non-unique name only the first non-empty one
\* (trimmed) counts: it is the display name when it does not start with "group_";
\* when it does, the parts after it are not looked at and the name is the first
\* word of the annotation, or the cluster id.
C5_FirstPartOnly ==
    \A i \in LastSeen :
        LET parts == TrimmedParts(df[i].nonunique)
        IN  (HasSeveralParts(df[i].nonunique) /\ parts # <<>>) =>
                map_dict[df[i].Gene] =
                    (IF ~StartsWith(parts[1], s_group_) THEN parts[1]
                     ELSE AnnotationWordOrId(df[i]))

\* The row ("group_1", "group_500;rplL", "ATP synthase subunit") has been mapped
\* to "ATP"
C5_Witness ==
    /\ ppc = "done"
    /\ df = <<Row(s_group_1, s_group_500_rplL, s_ATP_synthase_subunit)>>
    /\ map_dict = (s_group_1 :> s_ATP)

\* C7: the map has one entry for every cluster id of the rows seen so far and for
\* no other, and the entry of a cluster id is the name of the last row seen that
\* has this id.
C7_LastRowWins ==
    /\ DOMAIN map_dict = {df[i].Gene : i \in 1..row_i}
    /\ \A i \in LastSeen : map_dict[df[i].Gene] = ShortName(df[i])
    /\ ppc = "done" => row_i = Len(df)

\* Two rows of the cluster id "group_1", named "rplL" and "ATP", have left "ATP"
C7_Witness ==
    /\ ppc = "done"
    /\ df = <<Row(s_group_1, s_rplL, s_nan),
              Row(s_group_1, s_group_500_rplL, s_ATP_synthase_subunit)>>
    /\ map_dict = (s_group_1 :> s_ATP)

----------------------------------------------------------------------------
(* Specifications *)

FindNext == FindYield \/ FindBreak

InitFind == FindInit /\ LocateIdle /\ OverlapIdle /\ ExtractIdle /\ PanarooIdle

\* find_all_occurrences run on one text and one pattern
SpecFind == InitFind /\ [][FindNext]_vars

Init == LocateInit /\ FindIdle /\ OverlapIdle /\ ExtractIdle /\ PanarooIdle

Next == LocateNext

\* process_gbff called on each source in turn
Spec == Init /\ [][Next]_vars

InitOverlap == OverlapInit /\ FindIdle /\ LocateIdle /\ ExtractIdle /\ PanarooIdle

\* get_overlapping_genes run on one feature list and one range
SpecOverlap == InitOverlap /\ [][OverlapNext]_vars

InitExtract == ExtractInit /\ FindIdle /\ LocateIdle /\ OverlapIdle /\ PanarooIdle

\* extract_genes run on one list of overlap hits
SpecExtract == InitExtract /\ [][ExtractNext]_vars

InitPanaroo == PanarooInit /\ FindIdle /\ LocateIdle /\ OverlapIdle /\ ExtractIdle

\* load_panaroo_csv run on one table
SpecPanaroo == InitPanaroo /\ [][PanarooNext]_vars

====
